---- MODULE Spec2Model ----
(***************************************************************************)
(* The download queue of feedback (src/feedback/downloads.py):             *)
(* DownloadQueue owns the ordered item collection `_queue` and the map     *)
(* `_active` from url to the asyncio task that transfers it.  All          *)
(* coroutines run on one event loop: a step of the model is what one       *)
(* coroutine executes between two suspension points.  The bodies guarded   *)
(* by `async with self._lock` contain no await: a coroutine that enters    *)
(* one leaves it in the same step, and an API call (add, add_batch,        *)
(* cancel, cancel_all, clear_completed) runs from its first to its last    *)
(* line in one step when the lock is free.                                 *)
(*                                                                         *)
(* Spec and SpecWait follow the queue's bookkeeping: statuses, _queue,     *)
(* _active and the tasks.  SpecTransfer follows in addition what each      *)
(* transfer does chunk by chunk to the item's other fields, to the         *)
(* destination file and to the progress callback.                          *)
(***************************************************************************)
EXTENDS Integers, Sequences, FiniteSets, TLC

\* Bounds of the model.
MaxItems == 3      \* items created over the queue's lifetime
NumUrls == 2       \* distinct urls the callers use
MaxCap == 2        \* largest max_concurrent a queue is constructed with
MaxBatch == 2      \* longest list passed to add_batch
MaxTransfers == 2  \* items created where the transfers are followed chunk by chunk
MaxChunks == 2     \* chunks of the longest response body
MaxLength == 2     \* largest content-length a response announces

Urls == 1..NumUrls
ItemIds == 1..MaxItems

\* DownloadStatus
PENDING == "PENDING"
DOWNLOADING == "DOWNLOADING"
COMPLETED == "COMPLETED"
FAILED == "FAILED"
CANCELLED == "CANCELLED"

Terminal == {COMPLETED, FAILED, CANCELLED}

VARIABLES
    max_concurrent,  \* DownloadQueue.max_concurrent
    items,           \* every DownloadItem created so far, by identity (index)
    queue,           \* DownloadQueue._queue: identities in insertion order
    active,          \* DownloadQueue._active: url -> identity of the item whose task is stored
    task,            \* the asyncio task running _download(item), per item
    waiter,          \* the coroutine executing wait_all()
    progress_callback,  \* DownloadQueue._progress_callback
    fields,          \* the other fields of every DownloadItem, by identity
    stage,           \* where in its try block a running task is suspended, per item
    disk,            \* the download directory: the task that created the file at each path
    calls,           \* what the progress callback was called with, per item
    lock             \* DownloadQueue._lock: the task holding it at a suspension point

\* What a transfer reads and writes besides the queue's bookkeeping.
transfer_vars == <<progress_callback, fields, stage, disk, calls>>

\* What the specifications of the bookkeeping leave alone.
other_vars == <<transfer_vars, lock>>

vars == <<max_concurrent, items, queue, active, task, waiter, other_vars>>

\* _lock is held by no coroutine.
Free == 0

\* `async with self._lock:` around a body without await: the coroutine enters
\* when the lock is free (it would suspend until then) and has released it
\* when the step ends.
with_lock == lock = Free /\ lock' = Free

\* A task that was never created, and the position of a task in _download:
\*   created  create_task() was called, the coroutine has not run yet
\*   running  suspended inside the try block (waiting for the response, for
\*            the next chunk or for the stream to close)
\*   done     the task has finished
NoTask == [pc |-> "none", must_cancel |-> FALSE]

\* The coroutine executing wait_all(): where it is, the tasks its gather() was
\* given, and (to tell afterwards which tasks were admitted during the wait)
\* the items that had a task when wait_all() was called.
Idle == [pc |-> "idle", tasks |-> {}, since |-> {}]

\* _progress_callback: None, or a callable installed by set_progress_callback
NoCallback == "None"
Installed == "callable"

\* The last path segment of a url, `url.split("/")[-1].split("?")[0]`: url 1
\* ends in "/" and its segment is empty (0), the urls 2k and 2k+1 differ before
\* their last segment only.
segment(url) == url \div 2

\* The filename add() and add_batch() derive for a url when the queue holds n
\* items: the last segment, or download_<n> when the segment is empty.
filename(url, n) ==
    IF segment(url) = 0 THEN <<"download", n>> ELSE <<"segment", segment(url)>>

\* The paths `download_dir / filename` the urls of the model lead to.
Paths == {filename(u, n) : u \in Urls, n \in 0..MaxTransfers}

\* No file at a path.
NoFile == 0

\* item.error: None, or what one of the three failure handlers assigns:
\* f"HTTP {code}", str(e) of the RequestError, f"IO error: {e}".  The message
\* of a RequestError is whatever the transport put in it; the timeouts of the
\* async transport carry none and str(e) is the empty string.
NoError == "None"
HttpError == "HTTP 404"
RequestErrors == {"", "All connection attempts failed"}
IoError == "IO error: [Errno 28] No space left on device"

\* A float that is the quotient of two naturals, as a reduced fraction.
RECURSIVE GCD(_, _)
GCD(a, b) == IF b = 0 THEN a ELSE GCD(b, a % b)

Quotient(n, d) == <<n \div GCD(n, d), d \div GCD(n, d)>>

Zero == <<0, 1>>
One == <<1, 1>>

\* a <= b for two such floats
Leq(a, b) == a[1] * b[2] <= b[1] * a[2]

\* The fields of a new DownloadItem besides url and status.
NewFields(url, n) ==
    [destination |-> filename(url, n), progress |-> Zero, bytes_downloaded |-> 0,
     total_bytes |-> 0, error |-> NoError]

DownloadItem(url) == [url |-> url, status |-> PENDING]

\* dict[key] = value
Put(d, k, v) == [x \in DOMAIN d \cup {k} |-> IF x = k THEN v ELSE d[x]]

\* dict.pop(key, None) / del dict[key]
Pop(d, k) == [x \in DOMAIN d \ {k} |-> d[x]]

EmptyMap == [x \in {} |-> 0]

\* [item for item in self._queue if item.status in statuses], as identities
RECURSIVE Filter(_, _, _)
Filter(q, its, statuses) ==
    IF q = <<>> THEN <<>>
    ELSE IF its[Head(q)].status \in statuses
         THEN <<Head(q)>> \o Filter(Tail(q), its, statuses)
         ELSE Filter(Tail(q), its, statuses)

pending_count == Len(Filter(queue, items, {PENDING}))

active_count == Cardinality(DOMAIN active)

\* The tasks stored in _active
active_tasks == {active[u] : u \in DOMAIN active}

\* `len(self._active) > self.max_concurrent`: the test lets one task too many in.
at_limit_off_by_one(act, cap) == Cardinality(DOMAIN act) > cap

\* `if len(self._active) >= self.max_concurrent: break`
at_limit(act, cap) == Cardinality(DOMAIN act) >= cap

\* The loop of _process_queue over the pending list; st = [items, active, task].
RECURSIVE admit(_, _, _)
admit(pending, st, cap) ==
    IF pending = <<>> THEN st
    ELSE IF at_limit(st.active, cap) THEN st
    ELSE LET i == Head(pending)
             nxt == [items |-> [st.items EXCEPT ![i].status = DOWNLOADING],
                     active |-> Put(st.active, st.items[i].url, i),
                     task |-> [st.task EXCEPT ![i] = [pc |-> "created", must_cancel |-> FALSE]]]
         IN admit(Tail(pending), nxt, cap)

\* A sequence back to front.
RECURSIVE Reverse(_)
Reverse(s) == IF s = <<>> THEN <<>> ELSE Append(Reverse(Tail(s)), Head(s))

\* An admission scan that takes the pending items newest first.
process_queue_newest_first(q, st, cap) == admit(Reverse(Filter(q, st.items, {PENDING})), st, cap)

\* An admission scan that takes failed items up again.
process_queue_retry_failed(q, st, cap) == admit(Filter(q, st.items, {PENDING, FAILED}), st, cap)

\* _process_queue: start downloads for pending items up to max_concurrent.
process_queue(q, st, cap) == admit(Filter(q, st.items, {PENDING}), st, cap)

Init ==
    /\ max_concurrent \in 0..MaxCap
    /\ items = <<>>
    /\ queue = <<>>
    /\ active = EmptyMap
    /\ task = [i \in ItemIds |-> NoTask]
    /\ waiter = Idle
    /\ progress_callback = NoCallback
    /\ fields = <<>>
    /\ stage = [i \in ItemIds |-> "none"]
    /\ disk = [d \in Paths |-> NoFile]
    /\ calls = [i \in ItemIds |-> <<>>]
    /\ lock = Free

\* add(url): append a Pending item, then run admission.
add(url) ==
    /\ Len(items) < MaxItems
    /\ LET i == Len(items) + 1
           q == Append(queue, i)
           st == process_queue(q, [items |-> Append(items, DownloadItem(url)),
                                   active |-> active, task |-> task], max_concurrent)
       IN /\ queue' = q
          /\ items' = st.items
          /\ active' = st.active
          /\ task' = st.task
    /\ UNCHANGED <<max_concurrent, waiter>>

\* The loop of add_batch: one new Pending item per entry, in order.
RECURSIVE append_all(_, _, _)
append_all(urls, q, its) ==
    IF urls = <<>> THEN [queue |-> q, items |-> its]
    ELSE append_all(Tail(urls), Append(q, Len(its) + 1), Append(its, DownloadItem(Head(urls))))

\* add_batch(downloads): append every entry, then run admission once.
add_batch(urls) ==
    /\ Len(items) + Len(urls) <= MaxItems
    /\ LET a == append_all(urls, queue, items)
           st == process_queue(a.queue, [items |-> a.items, active |-> active, task |-> task],
                               max_concurrent)
       IN /\ queue' = a.queue
          /\ items' = st.items
          /\ active' = st.active
          /\ task' = st.task
    /\ UNCHANGED <<max_concurrent, waiter>>

\* Task.cancel(): a task that is not done gets CancelledError thrown into its
\* coroutine the next time the event loop runs it.
task_cancel(tsk, i) ==
    IF tsk[i].pc \in {"created", "running"}
    THEN [tsk EXCEPT ![i].must_cancel = TRUE]
    ELSE tsk

\* cancel() that overlooks items still waiting for a slot.
Cancellable_active_only == {DOWNLOADING}

\* cancel() that also takes items whose transfer has succeeded.
Cancellable_with_completed == {PENDING, DOWNLOADING, COMPLETED}

\* cancel() that also takes items whose transfer has failed.
Cancellable_with_failed == {PENDING, DOWNLOADING, FAILED}

\* The statuses cancel() looks for.
Cancellable == {PENDING, DOWNLOADING}

\* The item the loop of cancel() stops at: the first of the queue with this url
\* and a status in Cancellable; 0 when the loop runs to its end.
RECURSIVE first_match(_, _, _)
first_match(q, its, url) ==
    IF q = <<>> THEN 0
    ELSE IF its[Head(q)].url = url /\ its[Head(q)].status \in Cancellable THEN Head(q)
    ELSE first_match(Tail(q), its, url)

\* What cancel(url) does to a queue in this state: the task stored under the
\* url is cancelled and its entry deleted, the first matching item is marked,
\* and True is returned from inside the loop, False after it.
cancel_outcome(url) ==
    LET was_active == url \in DOMAIN active
        i == first_match(queue, items, url)
    IN [task |-> IF was_active THEN task_cancel(task, active[url]) ELSE task,
        active |-> IF was_active THEN Pop(active, url) ELSE active,
        items |-> IF i # 0 THEN [items EXCEPT ![i].status = CANCELLED] ELSE items,
        returns |-> i # 0]

\* cancel(url)
cancel(url) ==
    /\ task' = cancel_outcome(url).task
    /\ active' = cancel_outcome(url).active
    /\ items' = cancel_outcome(url).items
    /\ UNCHANGED <<max_concurrent, queue, waiter>>

\* task.cancel() for every task of a set
RECURSIVE cancel_tasks(_, _)
cancel_tasks(tsk, ids) ==
    IF ids = {} THEN tsk
    ELSE LET i == CHOOSE x \in ids : TRUE
         IN cancel_tasks(task_cancel(tsk, i), ids \ {i})

\* cancel_all() that marks the items being transferred and overlooks the
\* items still waiting for a slot.
cancel_all_outcome_active_only ==
    LET marked == {k \in 1..Len(queue) : items[queue[k]].status \in {DOWNLOADING}}
    IN [task |-> cancel_tasks(task, active_tasks),
        active |-> EmptyMap,
        items |-> [i \in 1..Len(items) |->
                      IF \E k \in marked : queue[k] = i
                      THEN [items[i] EXCEPT !.status = CANCELLED]
                      ELSE items[i]],
        returns |-> Cardinality(DOMAIN active) + Cardinality(marked)]

\* What cancel_all() does to a queue in this state: every stored task is
\* cancelled and _active cleared, every Pending or Downloading item of the
\* queue is marked; `cancelled` is incremented once per entry of _active and
\* once more per item marked.
cancel_all_outcome ==
    LET marked == {k \in 1..Len(queue) : items[queue[k]].status \in {PENDING, DOWNLOADING}}
    IN [task |-> cancel_tasks(task, active_tasks),
        active |-> EmptyMap,
        items |-> [i \in 1..Len(items) |->
                      IF \E k \in marked : queue[k] = i
                      THEN [items[i] EXCEPT !.status = CANCELLED]
                      ELSE items[i]],
        returns |-> Cardinality(DOMAIN active) + Cardinality(marked)]

\* cancel_all()
cancel_all ==
    /\ task' = cancel_all_outcome.task
    /\ active' = cancel_all_outcome.active
    /\ items' = cancel_all_outcome.items
    /\ UNCHANGED <<max_concurrent, queue, waiter>>

\* What clear_completed() returns.
clear_completed_returns == Len(queue) - Len(Filter(queue, items, {PENDING, DOWNLOADING}))

\* clear_completed() that keeps only the items being transferred.
clear_completed_drops_pending ==
    /\ queue' = Filter(queue, items, {DOWNLOADING})
    /\ UNCHANGED <<max_concurrent, items, active, task, waiter>>

\* clear_completed()
clear_completed ==
    /\ queue' = Filter(queue, items, {PENDING, DOWNLOADING})
    /\ UNCHANGED <<max_concurrent, items, active, task, waiter>>

\* The first step of a task.  A task cancelled before it ever ran gets the
\* CancelledError thrown into a coroutine that has not started: the body of
\* _download, its except and finally clauses included, never executes.
\* Otherwise the coroutine runs to its first suspension, the request.
download_start(i) ==
    /\ task[i].pc = "created"
    /\ task' = IF task[i].must_cancel
               THEN [task EXCEPT ![i].pc = "done", ![i].must_cancel = FALSE]
               ELSE [task EXCEPT ![i].pc = "running"]
    /\ UNCHANGED <<max_concurrent, items, queue, active, waiter>>

\* The queue when the finally clause reaches the progress callback: the status
\* the try/except wrote, the url popped from _active; the task is on its last
\* step.  st = [items, active, task].
popped(i, status) ==
    [items |-> [items EXCEPT ![i].status = status],
     active |-> Pop(active, items[i].url),
     task |-> [task EXCEPT ![i].pc = "done", ![i].must_cancel = FALSE]]

\* The last step of a running task: the status its try/except wrote, then the
\* finally clause (pop the url from _active, run admission), and the task is done.
finish(i, status) ==
    LET st == process_queue(queue, popped(i, status), max_concurrent)
    IN /\ items' = st.items
       /\ active' = st.active
       /\ task' = st.task
       /\ UNCHANGED <<max_concurrent, queue, waiter>>

\* The body was read to its end and the stream closed: COMPLETED.
download_complete(i) ==
    /\ task[i].pc = "running"
    /\ ~task[i].must_cancel
    /\ finish(i, COMPLETED)

\* HTTPStatusError, RequestError (a timeout included) or OSError, raised while
\* waiting for the response, opening the destination or reading the body: FAILED.
download_fail(i) ==
    /\ task[i].pc = "running"
    /\ ~task[i].must_cancel
    /\ finish(i, FAILED)

\* Any other exception raised inside the try block (int() on a content-length
\* that is no number, a progress callback that raises): no except clause
\* matches, the status stays as it is and the finally clause runs.
download_raise(i) ==
    /\ task[i].pc = "running"
    /\ ~task[i].must_cancel
    /\ finish(i, items[i].status)

\* CancelledError delivered at the suspension point: CANCELLED, the partial
\* file is unlinked, the error is re-raised through the finally clause.
download_cancelled(i) ==
    /\ task[i].pc = "running"
    /\ task[i].must_cancel
    /\ finish(i, CANCELLED)

\* The last step of a running task whose finally clause is left by an exception
\* of the progress callback: the url was popped, `await self._process_queue()`
\* is never reached.
finish_unscanned(i, status) ==
    /\ task[i].pc = "running"
    /\ items' = popped(i, status).items
    /\ active' = popped(i, status).active
    /\ task' = popped(i, status).task
    /\ UNCHANGED <<max_concurrent, queue, waiter>>

\* wait_all(): `while self._active: await gather(*values); await sleep(0.1)`.
\* The loop test: leave the loop and return, or suspend in gather.
wait_all_test(since) ==
    IF active_tasks = {}
    THEN waiter' = [pc |-> "returned", tasks |-> {}, since |-> {}]
    ELSE waiter' = [pc |-> "gather", tasks |-> active_tasks, since |-> since]

\* A caller starts wait_all(): the first loop test.
wait_all_call ==
    /\ waiter.pc \in {"idle", "returned"}
    /\ wait_all_test({i \in ItemIds : task[i].pc # "none"})
    /\ UNCHANGED <<max_concurrent, items, queue, active, task>>

\* gather() resumes once every task it was given is done; then sleep(0.1).
wait_all_gathered ==
    /\ waiter.pc = "gather"
    /\ \A i \in waiter.tasks : task[i].pc = "done"
    /\ waiter' = [pc |-> "sleep", tasks |-> {}, since |-> waiter.since]
    /\ UNCHANGED <<max_concurrent, items, queue, active, task>>

\* sleep(0.1) is over: the loop test again.
wait_all_wake ==
    /\ waiter.pc = "sleep"
    /\ wait_all_test(waiter.since)
    /\ UNCHANGED <<max_concurrent, items, queue, active, task>>

\* The urls in use, and the urls a caller passes next.  The code only compares
\* urls for equality, so a url that was never used before is named by the
\* least unused number.
used_urls(its) == {its[k].url : k \in 1..Len(its)}

next_urls(used) == {u \in Urls : \A v \in 1..(u - 1) : v \in used}

\* The lists of at most n urls a caller passes to add_batch.
Min(a, b) == IF a < b THEN a ELSE b

RECURSIVE batches(_, _)
batches(used, n) ==
    IF n = 0 THEN {<<>>}
    ELSE {<<>>} \cup UNION {{<<u>> \o b : b \in batches(used \cup {u}, n - 1)} : u \in next_urls(used)}

Next ==
    \/ \E u \in next_urls(used_urls(items)) : add(u) /\ UNCHANGED other_vars
    \/ \E urls \in batches(used_urls(items), Min(MaxBatch, MaxItems - Len(items))) :
          add_batch(urls) /\ UNCHANGED other_vars
    \/ \E u \in Urls : cancel(u) /\ UNCHANGED other_vars
    \/ cancel_all /\ UNCHANGED other_vars
    \/ clear_completed /\ UNCHANGED other_vars
    \/ \E i \in ItemIds : download_start(i) /\ UNCHANGED other_vars
    \/ \E i \in ItemIds : download_complete(i) /\ UNCHANGED other_vars
    \/ \E i \in ItemIds : download_fail(i) /\ UNCHANGED other_vars
    \/ \E i \in ItemIds : download_raise(i) /\ UNCHANGED other_vars
    \/ \E i \in ItemIds : download_cancelled(i) /\ UNCHANGED other_vars

(***************************************************************************)
(* The transfers, chunk by chunk: what _download reads and writes besides  *)
(* the queue's bookkeeping (the item's other fields, the destination file, *)
(* the progress callback), laid over the actions above.                    *)
(***************************************************************************)

\* set_progress_callback(callback), called before the first download is added.
set_progress_callback(callback) ==
    /\ items = <<>>
    /\ callback # progress_callback
    /\ progress_callback' = callback
    /\ UNCHANGED <<max_concurrent, items, queue, active, task, waiter, fields, stage, disk, calls, lock>>

\* add(url) with no filename: the destination is derived from the url.
transfer_add(url) ==
    /\ add(url)
    /\ fields' = Append(fields, NewFields(url, Len(queue)))
    /\ with_lock
    /\ UNCHANGED <<progress_callback, stage, disk, calls>>

\* The loop of add_batch: the queue holds n items when the next is built.
RECURSIVE append_fields(_, _, _)
append_fields(urls, fs, n) ==
    IF urls = <<>> THEN fs
    ELSE append_fields(Tail(urls), Append(fs, NewFields(Head(urls), n)), n + 1)

\* add_batch(downloads) with no filenames.
transfer_add_batch(urls) ==
    /\ add_batch(urls)
    /\ fields' = append_fields(urls, fields, Len(queue))
    /\ with_lock
    /\ UNCHANGED <<progress_callback, stage, disk, calls>>

\* `if self._progress_callback: self._progress_callback(item)`: the callback
\* sees the item as it is at the call, and returns.
notify(cs, i, status, f) ==
    IF progress_callback = Installed
    THEN [cs EXCEPT ![i] = Append(@, [status |-> status, progress |-> f.progress,
                                      bytes_downloaded |-> f.bytes_downloaded])]
    ELSE cs

\* The callback of the finally clause: besides the item it can see, through
\* active_count and get_items(), the queue as it is at the call: st.active and
\* the items still Pending.
notify_final(cs, i, status, f) ==
    IF progress_callback = Installed
    THEN [cs EXCEPT ![i] = Append(@, [status |-> status, progress |-> f.progress,
                                      bytes_downloaded |-> f.bytes_downloaded,
                                      active |-> popped(i, status).active,
                                      pending |-> Filter(queue, popped(i, status).items,
                                                         {PENDING})])]
    ELSE cs

\* A _download that takes the lock before its try block and holds it until
\* the transfer has ended.
transfer_start_under_lock(i) ==
    /\ download_start(i)
    /\ stage' = [stage EXCEPT ![i] = IF task[i].must_cancel THEN "none" ELSE "request"]
    /\ lock = Free
    /\ lock' = IF task[i].must_cancel THEN Free ELSE i
    /\ UNCHANGED <<progress_callback, fields, disk, calls>>

\* The first step of a task that was not cancelled before it ran: the client
\* is built and the coroutine suspends waiting for the response.  The try
\* block takes no lock.
transfer_start(i) ==
    /\ download_start(i)
    /\ stage' = [stage EXCEPT ![i] = IF task[i].must_cancel THEN "none" ELSE "request"]
    /\ UNCHANGED <<progress_callback, fields, disk, calls, lock>>

\* A 2xx response arrives: total_bytes from the content-length header (0: no
\* header), the destination is opened for writing, which creates or truncates
\* the file, and the coroutine suspends waiting for the first chunk.
transfer_response(i, length) ==
    /\ task[i].pc = "running"
    /\ ~task[i].must_cancel
    /\ stage[i] = "request"
    /\ fields' = [fields EXCEPT ![i].total_bytes = length]
    /\ disk' = [disk EXCEPT ![fields[i].destination] = i]
    /\ stage' = [stage EXCEPT ![i] = "body"]
    /\ UNCHANGED <<max_concurrent, items, queue, active, task, waiter, progress_callback, calls, lock>>

\* What one pass of the chunk loop does to the fields: one more chunk (of one
\* byte here) written and counted, progress recomputed when the total is known.
chunk_fields(f) ==
    [f EXCEPT !.bytes_downloaded = @ + 1,
              !.progress = IF f.total_bytes > 0
                           THEN Quotient(f.bytes_downloaded + 1, f.total_bytes)
                           ELSE @]

\* A chunk arrives: written, counted, reported; the coroutine suspends again.
transfer_chunk(i) ==
    /\ task[i].pc = "running"
    /\ ~task[i].must_cancel
    /\ stage[i] = "body"
    /\ fields[i].bytes_downloaded < MaxChunks
    /\ fields' = [fields EXCEPT ![i] = chunk_fields(@)]
    /\ calls' = notify(calls, i, items[i].status, chunk_fields(fields[i]))
    /\ UNCHANGED <<max_concurrent, items, queue, active, task, waiter, progress_callback, stage, disk, lock>>

\* What a transfer that succeeds does besides the bookkeeping: progress 1.0,
\* then the callback of the finally clause.
complete_effects(i) ==
    /\ stage[i] = "body"
    /\ fields' = [fields EXCEPT ![i].progress = One]
    /\ calls' = notify_final(calls, i, COMPLETED, [fields[i] EXCEPT !.progress = One])
    /\ stage' = [stage EXCEPT ![i] = "none"]
    /\ UNCHANGED <<progress_callback, disk>>

\* The body ends and the stream closes: COMPLETED, progress 1.0, then the
\* finally clause with its callback.
transfer_complete(i) == download_complete(i) /\ complete_effects(i) /\ with_lock

\* Failure handlers that set the status and leave item.error as it was.
failures_without_message(stg) == {NoError}

\* The errors the three failure handlers can meet at each suspension: a
\* non-2xx response and a failing open() while waiting for the response, a
\* failing write() in the body, a RequestError (a timeout included) in both.
failures(stg) ==
    IF stg = "request" THEN {HttpError, IoError} \cup RequestErrors
    ELSE {IoError} \cup RequestErrors

\* What a transfer that fails does besides the bookkeeping: the handler's
\* message, then the callback of the finally clause; a file that was opened
\* stays where it is.
fail_effects(i, error) ==
    /\ error \in failures(stage[i])
    /\ fields' = [fields EXCEPT ![i].error = error]
    /\ calls' = notify_final(calls, i, FAILED, [fields[i] EXCEPT !.error = error])
    /\ stage' = [stage EXCEPT ![i] = "none"]
    /\ UNCHANGED <<progress_callback, disk>>

\* The transfer fails: FAILED with the handler's message.
transfer_fail(i, error) == download_fail(i) /\ fail_effects(i, error) /\ with_lock

\* What an exception no handler catches leaves behind: int() on the
\* content-length when the response arrives, or the callback raising on a chunk
\* after the chunk was written and counted.  The finally clause calls the
\* callback (again).
raise_effects(i) ==
    /\ stage[i] = "body" => (progress_callback = Installed /\ fields[i].bytes_downloaded < MaxChunks)
    /\ LET f == IF stage[i] = "body" THEN chunk_fields(fields[i]) ELSE fields[i]
           cs == IF stage[i] = "body" THEN notify(calls, i, items[i].status, f) ELSE calls
       IN /\ fields' = [fields EXCEPT ![i] = f]
          /\ calls' = notify_final(cs, i, items[i].status, f)
    /\ stage' = [stage EXCEPT ![i] = "none"]
    /\ UNCHANGED <<progress_callback, disk>>

\* An exception no handler catches ends the transfer.
transfer_raise(i) == download_raise(i) /\ raise_effects(i) /\ with_lock

\* `if item.destination.exists(): item.destination.unlink()`
unlink(dsk, path) == [dsk EXCEPT ![path] = NoFile]

\* What the CancelledError handler does besides the bookkeeping: the file at
\* the destination is unlinked, then the callback of the finally clause.
cancelled_effects(i) ==
    /\ disk' = unlink(disk, fields[i].destination)
    /\ calls' = notify_final(calls, i, CANCELLED, fields[i])
    /\ stage' = [stage EXCEPT ![i] = "none"]
    /\ UNCHANGED <<progress_callback, fields>>

\* CancelledError at the suspension point: CANCELLED, the file at the
\* destination is unlinked, then the finally clause with its callback.
transfer_cancelled(i) == download_cancelled(i) /\ cancelled_effects(i) /\ with_lock

\* The last step of a task when the callback of the finally clause raises:
\* whatever the outcome of the transfer, the exception leaves the finally
\* clause before its admission scan.
transfer_callback_raises(i) ==
    /\ progress_callback = Installed
    /\ with_lock
    /\ \/ ~task[i].must_cancel /\ finish_unscanned(i, COMPLETED) /\ complete_effects(i)
       \/ /\ ~task[i].must_cancel
          /\ \E error \in failures(stage[i]) : finish_unscanned(i, FAILED) /\ fail_effects(i, error)
       \/ ~task[i].must_cancel /\ finish_unscanned(i, items[i].status) /\ raise_effects(i)
       \/ task[i].must_cancel /\ finish_unscanned(i, CANCELLED) /\ cancelled_effects(i)

\* The items created where the transfers are followed.
TransferIds == 1..MaxTransfers

\* The lists of at most n urls.
RECURSIVE url_lists(_)
url_lists(n) ==
    IF n = 0 THEN {<<>>}
    ELSE {<<>>} \cup {<<u>> \o b : u \in Urls, b \in url_lists(n - 1)}

NextTransfer ==
    \/ \E callback \in {NoCallback, Installed} : set_progress_callback(callback)
    \/ \E u \in Urls : Len(items) < MaxTransfers /\ transfer_add(u)
    \/ \E urls \in url_lists(Min(MaxBatch, MaxTransfers - Len(items))) : transfer_add_batch(urls)
    \/ \E u \in Urls : cancel(u) /\ with_lock /\ UNCHANGED transfer_vars
    \/ cancel_all /\ with_lock /\ UNCHANGED transfer_vars
    \/ clear_completed /\ with_lock /\ UNCHANGED transfer_vars
    \/ \E i \in TransferIds : transfer_start(i)
    \/ \E i \in TransferIds : \E length \in 0..MaxLength : transfer_response(i, length)
    \/ \E i \in TransferIds : transfer_chunk(i)
    \/ \E i \in TransferIds : transfer_complete(i)
    \/ \E i \in TransferIds : \E error \in failures(stage[i]) : transfer_fail(i, error)
    \/ \E i \in TransferIds : transfer_raise(i)
    \/ \E i \in TransferIds : transfer_cancelled(i)
    \/ \E i \in TransferIds : transfer_callback_raises(i)

\* The queue with its callers, its tasks and their transfers.
SpecTransfer == Init /\ [][NextTransfer]_vars

\* The queue with its callers and its tasks: the bookkeeping of the queue
\* alone, without what the transfers read and write besides it.
Spec == Init /\ [][Next]_vars

\* The same, with one more coroutine that calls wait_all().
NextWait ==
    \/ Next
    \/ wait_all_call /\ UNCHANGED other_vars
    \/ wait_all_gathered /\ UNCHANGED other_vars
    \/ wait_all_wake /\ UNCHANGED other_vars

SpecWait == Init /\ [][NextWait]_vars

\* The steps of the task of item i.
download_step(i) ==
    \/ download_start(i) /\ UNCHANGED other_vars
    \/ download_complete(i) /\ UNCHANGED other_vars
    \/ download_fail(i) /\ UNCHANGED other_vars
    \/ download_raise(i) /\ UNCHANGED other_vars
    \/ download_cancelled(i) /\ UNCHANGED other_vars

\* The same under the scheduling of the event loop: a task that is ready runs;
\* every wait of a transfer ends (with data, an error or the timeout of the
\* client); gather() resumes once its tasks are done and sleep(0.1) ends.
SpecWaitFair ==
    /\ SpecWait
    /\ \A i \in ItemIds : WF_vars(download_step(i))
    /\ WF_vars(wait_all_gathered /\ UNCHANGED other_vars)
    /\ WF_vars(wait_all_wake /\ UNCHANGED other_vars)

(***************************************************************************)
(* Properties                                                              *)
(***************************************************************************)

\* The positions of the queue whose item has one of these statuses.
with_status(statuses) == {k \in 1..Len(queue) : items[queue[k]].status \in statuses}

\* The items whose task was spawned and has not finished its run.
unfinished == {i \in ItemIds : task[i].pc \in {"created", "running"}}

\* The item cancel(url) is called on: the earliest-inserted item of the queue
\* with this url that is not yet terminal (0: there is none).
target(url) ==
    LET live == {k \in with_status({PENDING, DOWNLOADING}) : items[queue[k]].url = url}
    IN IF live = {} THEN 0 ELSE queue[CHOOSE k \in live : \A m \in live : k <= m]

\* C1: in every reachable state the number of items whose status is
\* Downloading is at most max_concurrent.
C1_DownloadingWithinCap == Cardinality(with_status({DOWNLOADING})) <= max_concurrent

\* C2: in every reachable state the active map holds at most max_concurrent
\* entries.
C2_ActiveWithinCap == active_count <= max_concurrent

\* C2 witness: the cap is reached while an item is still waiting for a slot.
C2_CapReached == max_concurrent >= 1 /\ active_count = max_concurrent /\ pending_count >= 1

\* C3: once an item is Completed, Failed or Cancelled its status never changes
\* again, whatever step is taken.
C3_TerminalIsFinal ==
    [][\A i \in 1..Len(items) :
          items[i].status \in Terminal => items'[i].status = items[i].status]_vars

\* C4: with max_concurrent >= 1, at the step in which wait_all() returns every
\* item of the queue is Completed, Failed or Cancelled.
C4_WaitAllLeavesNoneLive ==
    [][(max_concurrent >= 1 /\ waiter.pc # "returned" /\ waiter'.pc = "returned")
          => \A k \in 1..Len(queue') : items'[queue'[k]].status \in Terminal]_vars

\* C5: in every reachable state, cancel_all() called there with a Downloading
\* and p Pending items returns a + p, and on return each of them is Cancelled
\* and the active map is empty.
C5_CancelAllCountsOnce ==
    /\ cancel_all_outcome.returns = Cardinality(with_status({DOWNLOADING}))
                                    + Cardinality(with_status({PENDING}))
    /\ \A k \in with_status({PENDING, DOWNLOADING}) :
          cancel_all_outcome.items[queue[k]].status = CANCELLED
    /\ cancel_all_outcome.active = EmptyMap

\* C6: cancel(url) on a Downloading item leaves it Cancelled, and when the run
\* of a task that was sent the cancellation ends, no Pending item is left
\* waiting while a slot is free: the earliest one has been admitted.
C6_CancelActiveBackfills ==
    [][/\ \A u \in Urls :
             (cancel(u) /\ target(u) # 0 /\ items[target(u)].status = DOWNLOADING)
                => items'[target(u)].status = CANCELLED
       /\ \A i \in ItemIds :
             (task[i].must_cancel /\ task[i].pc # "done" /\ task'[i].pc = "done")
                => ~(Len(Filter(queue', items', {PENDING})) >= 1
                     /\ Cardinality(DOMAIN active') < max_concurrent)]_vars

\* C7: at every instant at most one task that was spawned and has not finished
\* exists for any given url.
C7_OneWorkerPerUrl ==
    \A u \in Urls : Cardinality({i \in unfinished : items[i].url = u}) <= 1

\* C8: at every instant the number of tasks that were spawned and have not
\* finished their run is at most max_concurrent.
C8_RunningWithinCap == Cardinality(unfinished) <= max_concurrent

C10_CancelResult ==
    \A u \in Urls :
       LET out == cancel_outcome(u)
       IN /\ target(u) = 0
                => /\ ~out.returns
                   /\ out.items = items
                   /\ out.active = active
                   /\ out.task = task
          /\ out.returns
                <=> \E i \in 1..Len(items) :
                       items[i].status # CANCELLED /\ out.items[i].status = CANCELLED

\* C10 witness: every item of some url is terminal, so cancel(url) returns
\* false there, while an item of another url is being transferred.
C10_OnlyTerminalForUrl ==
    \E u \in Urls :
       /\ \E k \in with_status(Terminal) : items[queue[k]].url = u
       /\ target(u) = 0
       /\ ~cancel_outcome(u).returns
       /\ \E v \in DOMAIN active : v # u /\ items[active[v]].status = DOWNLOADING

\* The position of an item in a queue.
position(q, i) == CHOOSE k \in 1..Len(q) : q[k] = i

\* C11: in every reachable state clear_completed() returns the number of
\* Completed, Failed and Cancelled items of the queue; and a step that takes an
\* item out of the queue takes out exactly those items, keeps every Pending and
\* Downloading item in the same relative order, and changes no item and no
\* entry of the active map (so a step that is not clear_completed removes none).
C11_ClearCompletedOnly ==
    /\ [](clear_completed_returns = Cardinality(with_status(Terminal)))
    /\ [][(\E k \in 1..Len(queue) : \A m \in 1..Len(queue') : queue'[m] # queue[k])
             => /\ {queue'[m] : m \in 1..Len(queue')}
                      = {queue[k] : k \in with_status({PENDING, DOWNLOADING})}
                /\ Len(queue') = Cardinality(with_status({PENDING, DOWNLOADING}))
                /\ \A a, b \in 1..Len(queue') :
                      a < b => position(queue, queue'[a]) < position(queue, queue'[b])
                /\ items' = items
                /\ active' = active]_vars

\* C11 witness: a terminal item was removed from between two items that are
\* still Pending or Downloading and still in the queue.
C11_ClearedBetweenLive ==
    \E k \in 1..(Len(queue) - 1) :
       /\ queue[k + 1] - queue[k] > 1
       /\ items[queue[k]].status \in {PENDING, DOWNLOADING}
       /\ items[queue[k + 1]].status \in {PENDING, DOWNLOADING}

\* The item is Pending when the admission scan of this step starts: it was
\* Pending before the step or is appended by it.
pending_at_scan(i) == IF i <= Len(items) THEN items[i].status = PENDING ELSE i <= Len(items')

\* C12: in every step, when an item that was Pending at the start of the scan
\* is Downloading after it, every item inserted before it that was Pending at
\* the start of the scan is Downloading too, and none inserted before it is
\* left Pending.
C12_AdmissionFifo ==
    [][\A i \in 1..Len(items') :
          (pending_at_scan(i) /\ items'[i].status = DOWNLOADING)
             => \A j \in 1..(i - 1) :
                   /\ pending_at_scan(j) => items'[j].status = DOWNLOADING
                   /\ items'[j].status # PENDING]_vars

\* C12 witness: a finished transfer's scan had two Pending items to choose
\* from and one slot: the earlier one is Downloading, the later one waits.
C12_EarlierAdmittedLaterWaits ==
    \E i, j, k \in 1..Len(items) :
       /\ i < j /\ j < k
       /\ items[i].status \in {COMPLETED, FAILED} /\ task[i].pc = "done"
       /\ items[j].status = DOWNLOADING /\ task[j].pc = "created"
       /\ items[k].status = PENDING

\* C14: in every reachable state, an item whose task has finished its run is
\* Completed, Failed or Cancelled.
C14_FinishedIsTerminal ==
    \A i \in 1..Len(items) : task[i].pc = "done" => items[i].status \in Terminal

\* C16: in every step, an item that already has a task gets no new one, and an
\* item that is Failed or Cancelled is neither set to Downloading nor given a
\* task.
C16_NoRetry ==
    [][\A i \in 1..Len(items) :
          /\ task[i].pc # "none" => task'[i].pc \in {task[i].pc, "running", "done"}
          /\ items[i].status \in {FAILED, CANCELLED}
                => /\ items'[i].status # DOWNLOADING
                   /\ task'[i].pc = "created" => task[i].pc = "created"]_vars

\* C16 witness: an item has Failed and its task is done, a slot is free, and
\* an item added later was admitted by a scan that passed over the failed one.
C16_FailedPassedOver ==
    \E i, j \in 1..Len(items) :
       /\ i < j
       /\ items[i].status = FAILED /\ task[i].pc = "done"
       /\ position(queue, i) < position(queue, j)
       /\ items[j].status = DOWNLOADING /\ task[j].pc = "created"
       /\ active_count < max_concurrent

calls_with(i, status) == {n \in 1..Len(calls[i]) : calls[i][n].status = status}

\* C13: with a progress callback installed, in every reachable state every
\* item that is Completed, Failed or Cancelled and has no task still under way
\* was shown to the callback exactly once in that status.
C13_NotifiedOncePerTerminal ==
    progress_callback = Installed
       => \A i \in 1..Len(items) :
             (items[i].status \in Terminal /\ task[i].pc \in {"none", "done"})
                => Cardinality(calls_with(i, items[i].status)) = 1

\* C15: in every reachable state, an item one of the failure handlers has
\* written to is Failed and its error is not empty.
C15_FailedWithMessage ==
    \A i \in 1..Len(items) :
       fields[i].error # NoError => (items[i].status = FAILED /\ fields[i].error # "")

\* C17: in every reachable state the progress values the callback was shown
\* for an item are non-decreasing and within [0,1], and for an item that has
\* ended Completed the last of them is 1.0 with bytes_downloaded the number
\* of bytes received.
C17_ProgressMonotone ==
    \A i \in 1..Len(items) :
       /\ \A n \in 1..Len(calls[i]) :
             /\ Leq(Zero, calls[i][n].progress) /\ Leq(calls[i][n].progress, One)
             /\ n > 1 => Leq(calls[i][n - 1].progress, calls[i][n].progress)
       /\ (items[i].status = COMPLETED /\ task[i].pc = "done" /\ calls[i] # <<>>)
             => /\ calls[i][Len(calls[i])].progress = One
                /\ calls[i][Len(calls[i])].bytes_downloaded = fields[i].bytes_downloaded

\* C18: in every step in which the run of a task that was sent a cancellation
\* ends, the task's item is Cancelled and no file created by this task is
\* left at the item's destination.
C18_CancelledWorkerCleansUp ==
    [][\A i \in 1..Len(items) :
          (task[i].must_cancel /\ task[i].pc # "done" /\ task'[i].pc = "done")
             => /\ items'[i].status = CANCELLED
                /\ disk'[fields[i].destination] # i]_vars

\* C19: in every reachable state a file exists at the destination of every
\* Completed item.
C19_CompletedHasFile ==
    \A i \in 1..Len(items) :
       items[i].status = COMPLETED => disk[fields[i].destination] # NoFile

\* C26: in every reachable state every Downloading item has its url in the
\* active map, and the task stored under it is the task of that item.
C26_DownloadingHoldsOwnEntry ==
    \A i \in 1..Len(items) :
       items[i].status = DOWNLOADING
          => (items[i].url \in DOMAIN active /\ active[items[i].url] = i)

\* C27: in every step in which the run of a started task ends, an entry of the
\* active map that is stored under the task's url and holds another task is
\* still there after the step, with the same task.
C27_CleanupPopsOwnEntry ==
    [][\A i \in 1..Len(items) :
          (task[i].pc = "running" /\ task'[i].pc = "done"
             /\ items[i].url \in DOMAIN active /\ active[items[i].url] # i)
             => /\ items[i].url \in DOMAIN active'
                /\ active'[items[i].url] = active[items[i].url]]_vars

\* C28: in every reachable state, cancel(url) called while a task is stored
\* under the url marks the item of that task Cancelled, the item it marks is
\* no other, and whatever the url it changes at most one item.
C28_CancelMarksTransferred ==
    \A u \in Urls :
       LET out == cancel_outcome(u)
       IN /\ u \in DOMAIN active
                => /\ first_match(queue, items, u) = active[u]
                   /\ out.items[active[u]].status = CANCELLED
          /\ Cardinality({i \in 1..Len(items) : out.items[i] # items[i]}) <= 1

\* C29: in every reachable state, cancel_all() called there leaves the active
\* map empty and no item Pending or Downloading; and from a state like that,
\* every step that adds no item leaves the active map empty, leaves no item
\* Pending or Downloading and creates no task.
C29_CancelAllQuiesces ==
    /\ [](/\ cancel_all_outcome.active = EmptyMap
          /\ \A i \in 1..Len(items) : cancel_all_outcome.items[i].status \in Terminal)
    /\ [][(/\ active = EmptyMap
           /\ \A i \in 1..Len(items) : items[i].status \in Terminal
           /\ Len(items') = Len(items))
             => /\ active' = EmptyMap
                /\ \A i \in 1..Len(items') : items'[i].status \in Terminal
                /\ \A i \in ItemIds : task'[i].pc = "created" => task[i].pc = "created"]_vars

\* C29 witness: cancel_all() has returned with a transfer under way and an
\* item waiting: both are Cancelled, the active map is empty, and the task
\* that was sent the cancellation has not run its cleanup yet.
C29_CancelledAllMidTransfer ==
    /\ active = EmptyMap
    /\ \A i \in 1..Len(items) : items[i].status \in Terminal
    /\ \E i, j \in 1..Len(items) :
          /\ items[i].status = CANCELLED /\ task[i].pc = "running" /\ task[i].must_cancel
          /\ items[j].status = CANCELLED /\ task[j].pc = "none"

\* C22: wait_all() returns only in a step that leaves the active map empty,
\* whether it returns from its first test or after a gather; when it returns
\* after a gather, every task that was created during the wait is done; and
\* under the scheduling of the event loop a call that is waiting always
\* returns in the end (every transfer ends, and the callers add finitely many
\* items).
C22_WaitAllJoinsAll ==
    /\ [][(waiter.pc # "returned" /\ waiter'.pc = "returned") => active' = EmptyMap]_vars
    /\ [][(waiter.pc = "sleep" /\ waiter'.pc = "returned")
             => \A i \in ItemIds :
                   (task[i].pc # "none" /\ i \notin waiter.since) => task[i].pc = "done"]_vars
    /\ (waiter.pc \in {"gather", "sleep"}) ~> (waiter.pc = "returned")

\* C22 without its second sentence: wait_all() returns only in a step that
\* leaves the active map empty, and a call that is waiting always returns.
C22_ReturnsOnEmptyMap ==
    /\ [][(waiter.pc # "returned" /\ waiter'.pc = "returned") => active' = EmptyMap]_vars
    /\ (waiter.pc \in {"gather", "sleep"}) ~> (waiter.pc = "returned")

\* What add(url) makes of a queue st = [queue, items, active, task, fields].
add_outcome(st, url) ==
    LET q == Append(st.queue, Len(st.items) + 1)
        p == process_queue(q, [items |-> Append(st.items, DownloadItem(url)),
                               active |-> st.active, task |-> st.task], max_concurrent)
    IN [queue |-> q, items |-> p.items, active |-> p.active, task |-> p.task,
        fields |-> Append(st.fields, NewFields(url, Len(st.queue)))]

\* add(url) for every url of a list, in order, with nothing in between.
RECURSIVE adds_outcome(_, _)
adds_outcome(st, urls) ==
    IF urls = <<>> THEN st ELSE adds_outcome(add_outcome(st, Head(urls)), Tail(urls))

\* What add_batch(downloads) makes of the queue in this state.
add_batch_outcome(urls) ==
    LET a == append_all(urls, queue, items)
        p == process_queue(a.queue, [items |-> a.items, active |-> active, task |-> task],
                           max_concurrent)
    IN [queue |-> a.queue, items |-> p.items, active |-> p.active, task |-> p.task,
        fields |-> append_fields(urls, fields, Len(queue))]

\* add_batch(urls) leaves the queue as the successive add(url) do: the same
\* items with the same destinations in the same order, the same active map
\* and the same tasks.
C23_BatchIsSuccessiveAdds ==
    \A urls \in url_lists(Min(MaxBatch, MaxItems - Len(items))) :
       add_batch_outcome(urls)
          = adds_outcome([queue |-> queue, items |-> items, active |-> active,
                          task |-> task, fields |-> fields], urls)

\* After add_batch(urls), of the items that were Pending when its scan started
\* the first min(free slots, number of them), in insertion order, are
\* Downloading and the others Pending.
C23_BatchAdmitsUpToFree ==
    \A urls \in url_lists(Min(MaxBatch, MaxItems - Len(items))) :
       LET a == append_all(urls, queue, items)
           pending == Filter(a.queue, a.items, {PENDING})
           n == Min(max_concurrent - active_count, Len(pending))
       IN \A k \in 1..Len(pending) :
             add_batch_outcome(urls).items[pending[k]].status
                = IF k <= n THEN DOWNLOADING ELSE PENDING

\* C23: in every reachable state, add_batch(urls) called there leaves the
\* queue in the state the successive add(url) leave it in, and after its one
\* admission scan exactly the first min(free slots, number of Pending items)
\* Pending items are Downloading and the others Pending.
C23_AddBatchRefinesAdd == C23_BatchIsSuccessiveAdds /\ C23_BatchAdmitsUpToFree

\* C25: in every reachable state an item's error is set (is not None) exactly
\* when the item's status is Failed.
C25_ErrorIffFailed ==
    \A i \in 1..Len(items) : fields[i].error # NoError <=> items[i].status = FAILED

\* C25 witness: one transfer has failed with a timeout, whose message is the
\* empty string, and another has succeeded and carries no error.
C25_FailedBesideCompleted ==
    \E i, j \in 1..Len(items) :
       /\ items[i].status = FAILED /\ fields[i].error = "" /\ task[i].pc = "done"
       /\ items[j].status = COMPLETED /\ fields[j].error = NoError /\ task[j].pc = "done"

\* C30: in every reachable state no two items that are Pending or Downloading
\* have the same destination.
C30_DistinctDestinations ==
    \A i, j \in 1..Len(items) :
       (i # j /\ items[i].status \in {PENDING, DOWNLOADING}
              /\ items[j].status \in {PENDING, DOWNLOADING})
          => fields[i].destination # fields[j].destination

\* The run of the started task of item i ends in this step.
cleanup_of(i) == task[i].pc = "running" /\ task'[i].pc = "done"

\* In every step in which the run of a started task ends with a callback
\* installed, the callback is called once more with the item in its final
\* state, and the queue it sees has the task's url out of the active map and
\* every item Pending that was Pending before the step.
C24_NotifiedBetweenPopAndScan ==
    [][\A i \in 1..Len(items) :
          (cleanup_of(i) /\ progress_callback = Installed)
             => /\ Len(calls'[i]) > Len(calls[i])
                /\ LET seen == calls'[i][Len(calls'[i])]
                   IN /\ seen.status = items'[i].status
                      /\ items[i].url \notin DOMAIN seen.active
                      /\ \A u \in DOMAIN seen.active : seen.active[u] # i
                      /\ seen.pending = Filter(queue, items, {PENDING})]_vars

\* C24: in every step in which the run of a started task ends, the task's url
\* is out of the active map when the callback is called with the final item
\* state, no Pending item has been admitted yet at that call, and the step
\* ends with an admission scan: it leaves no item Pending beside a free slot.
C24_CleanupOrder ==
    /\ C24_NotifiedBetweenPopAndScan
    /\ [][\A i \in 1..Len(items) :
             cleanup_of(i)
                => (Filter(queue', items', {PENDING}) = <<>>
                    \/ at_limit(active', max_concurrent))]_vars

\* C21: in every reachable state no task that is suspended in its transfer
\* (waiting for the response, for a chunk or for a write) holds the lock, and
\* while a transfer is suspended the lock is free: add, cancel and an
\* admission scan called then enter it at once.
C21_LockFreeWhileTransferring ==
    /\ \A i \in ItemIds : stage[i] \in {"request", "body"} => lock # i
    /\ (\E i \in ItemIds : stage[i] \in {"request", "body"}) => lock = Free

\* C21 witness: a transfer is suspended in the middle of its body while
\* another item, added when the cap was reached, was cancelled by cancel(url)
\* before it got a task; the lock is free.
C21_CancelledBesideStalled ==
    /\ lock = Free
    /\ \E i, j \in 1..Len(items) :
          /\ stage[i] = "body" /\ fields[i].bytes_downloaded >= 1
          /\ items[i].status = DOWNLOADING
          /\ items[j].status = CANCELLED /\ task[j].pc = "none"
====
